---- MODULE Spec2Model ----
(***************************************************************************)
(* Model of plenum/server/consensus/message_request/message_handlers.py:   *)
(* ThreePhaseMessagesHandler and its three subclasses PreprepareHandler,   *)
(* PrepareHandler and CommitHandler.                                       *)
(*                                                                         *)
(* One handler object of one kind (msg_cls) works over one                 *)
(* ConsensusSharedData object.  Every public method is one action; the     *)
(* action records the call and what the call gave back (a returned value   *)
(* or a raised exception) in `call` and `result`.                          *)
(*                                                                         *)
(* Python values:                                                          *)
(*   None           is the empty set {}, a present value x is {x};         *)
(*   a 3PC key      is the pair <<view_no, pp_seq_no>>;                    *)
(*   stash_data     is a triple <<digest, stateRootHash, txnRootHash>>;    *)
(*   a value of unknown type (a field of a peer's message) is a record     *)
(*                  [type, val], see PyInt / PyNone / PyStr.               *)
(***************************************************************************)
EXTENDS Integers, FiniteSets, Sequences, TLC

(***************************************************************************)
(* Bounds of the model.                                                    *)
(***************************************************************************)
\* the largest pp_seq_no of the model
MaxSeq == 2
\* the largest number of keys in requested_messages
MaxPending == 1

\* an earlier and a later view; this replica's protocol instance and another one
Views == {0, 1}
InstIds == {0, 1}
LastView == CHOOSE v \in Views : \A w \in Views : w <= v
Seqs == 1..MaxSeq
Keys == Views \X Seqs

Hashes == {"hA", "hB"}
\* <<digest, stateRootHash, txnRootHash>>: the base triple and the triples
\* that differ from it in exactly one component.
BaseTriple == <<"hA", "hA", "hA">>
Triples ==
  {t \in Hashes \X Hashes \X Hashes :
     Cardinality({i \in 1..3 : t[i] # BaseTriple[i]}) <= 1}

None == {}
Some(x) == {x}
Option(S) == {None} \cup {Some(x) : x \in S}
TheValue(o) == CHOOSE x \in o : TRUE

Kinds == {"PrePrepare", "Prepare", "Commit"}

\* self._data.name and the name of some other replica
SelfName == "Alpha"
OtherName == "Beta"
Names == {SelfName, OtherName}

(***************************************************************************)
(* Python values whose type the code tests (isinstance).                   *)
(***************************************************************************)
PyInt(n) == [type |-> "int", val |-> n]
PyNone == [type |-> "NoneType", val |-> 0]
PyStr == [type |-> "str", val |-> 0]
\* pp_seq_no of an inbound request: an int (negative, zero, positive) or not an int
ReqSeqValues == {PyInt(n) : n \in -1..MaxSeq} \cup {PyNone, PyStr}

(***************************************************************************)
(* Protocol messages.  PrePrepare and Prepare carry the three hashes, a    *)
(* Commit does not (hashes = None).                                        *)
(***************************************************************************)
Message(cls, inst, view, seq, hashes) ==
  [cls |-> cls, instId |-> inst, viewNo |-> view, ppSeqNo |-> seq,
   hashes |-> hashes]

HashesOf(cls) == IF cls = "Commit" THEN {None} ELSE {Some(t) : t \in Triples}

Messages(cls) ==
  {Message(cls, i, v, s, h) : i \in InstIds, v \in Views, s \in Seqs,
                              h \in HashesOf(cls)}

VARIABLES
  kind,                \* msg_cls of the handler: which subclass this object is
  data,                \* self._data, the ConsensusSharedData
  requested_messages,  \* self.requested_messages: key -> Optional[stash_data]
  asked,               \* history: keys passed to prepare_msg_to_request since the last gc
  call,                \* the last call: method and arguments
  result,              \* what the last call gave back
  peer_data,           \* the ConsensusSharedData of a peer replica, or None
  wire                 \* the MessageReq / MessageRep in flight between the two, or None

vars == <<kind, data, requested_messages, asked, call, result, peer_data, wire>>

\* the handler's own state, and the peer with the transport
handler_vars == <<kind, data, requested_messages, asked, call, result>>
network_vars == <<peer_data, wire>>

Returned(v) == [status |-> "return", value |-> v, exc |-> "", reason |-> ""]
Raised(e, r) == [status |-> "raise", value |-> None, exc |-> e, reason |-> r]

(***************************************************************************)
(* Collaborators of the handler that live outside message_handlers.py.     *)
(***************************************************************************)
\* plenum.common.util.compare_3PC_keys: > 0 if key2 is later than key1,
\* < 0 if earlier, 0 if the keys are the same slot.
compare_3PC_keys(key1, key2) ==
  IF key1[1] = key2[1] THEN key2[2] - key1[2] ELSE key2[1] - key1[1]

\* dict.get(key): the value, or None
DictGet(d, key) == IF key \in DOMAIN d THEN Some(d[key]) ELSE None

\* Prepares.hasPrepareFrom(msg, voter) / Commits.hasCommitFrom(msg, voter):
\* the tally kept under the message's own key holds a vote of `voter`.
HasVoteFrom(tally, msg, voter) ==
  LET key == <<msg.viewNo, msg.ppSeqNo>>
  IN  key \in DOMAIN tally /\ voter \in tally[key].voters

\* msg_cls(**msg): builds the message of class cls from the raw dict of a
\* reply; a dict that does not have the fields of cls (or is None) is a TypeError.
Construct(cls, raw) ==
  IF raw # None /\ TheValue(raw).cls = cls
  THEN Returned(Some(TheValue(raw)))
  ELSE Raised("TypeError", "")

\* Python's binding of a call f(**kwargs) to a signature without defaults,
\* *args or **kwargs: the keywords must be exactly the parameters.
BindsKeywords(parameters, keywords) == keywords = parameters

(***************************************************************************)
(* ThreePhaseMessagesHandler                                               *)
(***************************************************************************)
\* fields: the names under which the three key fields are passed on
fields == {"inst_id", "view_no", "pp_seq_no"}

\* _validate without the comparison of the view
_validate_any_view(d, kwargs) ==
  /\ kwargs.inst_id = d.inst_id
  /\ kwargs.pp_seq_no.type = "int"
  /\ kwargs.pp_seq_no.val > 0

\* _validate(**kwargs)
_validate(d, kwargs) ==
  /\ kwargs.inst_id = d.inst_id
  /\ kwargs.view_no = d.view_no
  /\ kwargs.pp_seq_no.type = "int"
  /\ kwargs.pp_seq_no.val > 0

\* _has_already_ordered(view_no, pp_seq_no)
_has_already_ordered(d, view_no, pp_seq_no) ==
  compare_3PC_keys(<<view_no, pp_seq_no>>, d.last_ordered_3pc) >= 0

\* prepare_msg_to_request without the test of line 71: asks again
prepare_msg_to_request_no_dedup(d, rm, three_pc_key, stash_data) ==
  [requested_messages |->
     [k \in DOMAIN rm \cup {three_pc_key} |->
        IF k = three_pc_key THEN stash_data ELSE rm[k]],
   result |->
     Returned(Some([instId |-> d.inst_id,
                    viewNo |-> three_pc_key[1],
                    ppSeqNo |-> three_pc_key[2]]))]

\* prepare_msg_to_request that stores the stash_data of every call
prepare_msg_to_request_rebinds(d, rm, three_pc_key, stash_data) ==
  [requested_messages |->
     [k \in DOMAIN rm \cup {three_pc_key} |->
        IF k = three_pc_key THEN stash_data ELSE rm[k]],
   result |->
     IF three_pc_key \in DOMAIN rm
     THEN Returned(None)
     ELSE Returned(Some([instId |-> d.inst_id,
                         viewNo |-> three_pc_key[1],
                         ppSeqNo |-> three_pc_key[2]]))]

\* prepare_msg_to_request(three_pc_key, stash_data): the new table and the
\* returned payload (None when the key was already requested).
prepare_msg_to_request(d, rm, three_pc_key, stash_data) ==
  IF three_pc_key \in DOMAIN rm
  THEN [requested_messages |-> rm, result |-> Returned(None)]
  ELSE [requested_messages |->
          [k \in DOMAIN rm \cup {three_pc_key} |->
             IF k = three_pc_key THEN stash_data ELSE rm[k]],
        result |->
          Returned(Some([instId |-> d.inst_id,
                         viewNo |-> three_pc_key[1],
                         ppSeqNo |-> three_pc_key[2]]))]

\* gc that drops only the keys requested without stash_data
gc_keeps_bound(rm) == [k \in {x \in DOMAIN rm : rm[x] # None} |-> rm[k]]

\* gc(): requested_messages.clear()
gc(rm) == [k \in {} |-> None]

\* The outcome of a _validate_message_rep call that returns (result, error_msg)
Verdict(ok, error_msg) == Returned(Some([ok |-> ok, error_msg |-> error_msg]))

\* the parameters of _validate_message_rep(self, msg), in both classes
validate_message_rep_parameters == {"msg"}

\* ThreePhaseMessagesHandler._validate_message_rep(msg); msg is None or a message
Base_validate_message_rep(d, rm, msg) ==
  IF msg = None
  THEN Verdict(FALSE, "received null")
  ELSE
    LET m == TheValue(msg)
        key == <<m.viewNo, m.ppSeqNo>>
    IN  IF key \notin DOMAIN rm
        THEN Verdict(FALSE, "Had either not requested this msg or already received the msg")
        ELSE IF _has_already_ordered(d, key[1], key[2])
        THEN Verdict(FALSE, "already ordered msg")
        ELSE
          LET stashed_data == rm[key]
              curr_data == IF m.cls \in {"PrePrepare", "Prepare"}
                           THEN m.hashes ELSE None
          IN  IF stashed_data = None \/ curr_data = stashed_data
              THEN Verdict(TRUE, "")
              ELSE Raised("IncorrectMessageForHandlingException",
                          "3PC does not have expected state")

\* PreprepareHandler._validate_message_rep(msg)
Preprepare_validate_message_rep(d, rm, msg) ==
  LET super == Base_validate_message_rep(d, rm, msg)
  IN  IF super.status = "raise" THEN super
      ELSE IF msg = None THEN Raised("AttributeError", "")
      ELSE
        LET m == TheValue(msg)
            key == <<m.viewNo, m.ppSeqNo>>
            v == TheValue(super.value)
        IN  IF v.ok /\ \E pp \in d.preprepared : <<pp.view_no, pp.pp_seq_no>> = key
            THEN Verdict(FALSE, "already received msg")
            ELSE super

\* self._validate_message_rep(msg), dispatched on the class of self
_validate_message_rep(cls, d, rm, msg) ==
  IF cls = "PrePrepare"
  THEN Preprepare_validate_message_rep(d, rm, msg)
  ELSE Base_validate_message_rep(d, rm, msg)

\* _create(msg, **kwargs): a TypeError of the constructor propagates
_create(cls, raw, kwargs) ==
  LET built == Construct(cls, raw)
  IN  IF built.status = "raise" THEN built
      ELSE
        LET message == TheValue(built.value)
        IN  IF \/ message.instId # kwargs.inst_id
               \/ message.viewNo # kwargs.view_no
               \/ message.ppSeqNo # kwargs.pp_seq_no
            THEN Raised("MismatchedMessageReplyException", "")
            ELSE Returned(Some(message))

\* get_3pc_message(msg, frm): msg is the MessageRep [params, msg]
get_3pc_message(cls, d, rm, msg) ==
  LET params == [inst_id   |-> msg.params.instId,
                 view_no   |-> msg.params.viewNo,
                 pp_seq_no |-> msg.params.ppSeqNo]
      \* line 59: self._validate_message_rep(**params); what it returns is dropped
      validated ==
        IF BindsKeywords(validate_message_rep_parameters, DOMAIN params)
        THEN _validate_message_rep(cls, d, rm, params.msg)
        ELSE Raised("TypeError", "unexpected keyword argument")
      created == _create(cls, msg.msg, params)
  IN  IF validated.status = "raise" THEN validated
      ELSE IF created.status = "return" THEN created
      ELSE IF created.exc = "TypeError"
      THEN Raised("IncorrectMessageForHandlingException",
                  "replied message has invalid structure")
      ELSE Raised("IncorrectMessageForHandlingException",
                  "replied message does not satisfy query criteria")

(***************************************************************************)
(* The three subclasses: _get_reply(params)                                *)
(***************************************************************************)
\* PreprepareHandler._get_reply that falls back to the preprepared candidates
Preprepare_get_reply_or_candidate(d, params) ==
  LET key == <<params.view_no, params.pp_seq_no.val>>
  IN  IF key \in DOMAIN d.sent_preprepares
      THEN Some(d.sent_preprepares[key])
      ELSE IF \E pp \in d.preprepared : <<pp.view_no, pp.pp_seq_no>> = key
      THEN Some(Message("PrePrepare", d.inst_id, key[1], key[2], Some(BaseTriple)))
      ELSE None

Preprepare_get_reply(d, params) ==
  LET key == <<params.view_no, params.pp_seq_no.val>>
  IN  DictGet(d.sent_preprepares, key)

\* PrepareHandler._get_reply without the test of line 146
Prepare_get_reply_any_vote(d, params) ==
  LET key == <<params.view_no, params.pp_seq_no.val>>
  IN  IF key \in DOMAIN d.prepares THEN Some(d.prepares[key].msg) ELSE None

Prepare_get_reply(d, params) ==
  LET key == <<params.view_no, params.pp_seq_no.val>>
  IN  IF key \in DOMAIN d.prepares
      THEN LET prepare == d.prepares[key].msg
           IN  IF HasVoteFrom(d.prepares, prepare, d.name)
               THEN Some(prepare) ELSE None
      ELSE None

Commit_get_reply(d, params) ==
  LET key == <<params.view_no, params.pp_seq_no.val>>
  IN  IF key \in DOMAIN d.commits
      THEN LET commit == d.commits[key].msg
           IN  IF HasVoteFrom(d.commits, commit, d.name)
               THEN Some(commit) ELSE None
      ELSE None

\* self._get_reply(params), dispatched on the class of self
_get_reply(cls, d, params) ==
  CASE cls = "PrePrepare" -> Preprepare_get_reply(d, params)
    [] cls = "Prepare"    -> Prepare_get_reply(d, params)
    [] cls = "Commit"     -> Commit_get_reply(d, params)

\* process_message_req that treats "nothing found" as a request it cannot serve
process_message_req_raises_unknown(cls, d, msg) ==
  LET params == [inst_id   |-> msg.params.instId,
                 view_no   |-> msg.params.viewNo,
                 pp_seq_no |-> msg.params.ppSeqNo]
  IN  IF ~_validate(d, params) \/ _get_reply(cls, d, params) = None
      THEN Raised("IncorrectMessageForHandlingException", "cannot serve request")
      ELSE Returned(_get_reply(cls, d, params))

\* process_message_req(msg): msg is the MessageReq [params]
process_message_req(cls, d, msg) ==
  LET params == [inst_id   |-> msg.params.instId,
                 view_no   |-> msg.params.viewNo,
                 pp_seq_no |-> msg.params.ppSeqNo]
  IN  IF ~_validate(d, params)
      THEN Raised("IncorrectMessageForHandlingException", "cannot serve request")
      ELSE Returned(_get_reply(cls, d, params))

(***************************************************************************)
(* The shared consensus data.  The handler only reads it.                  *)
(***************************************************************************)
\* BatchID, an element of data.preprepared
BatchID(key) == [view_no |-> key[1], pp_seq_no |-> key[2], pp_digest |-> "hA"]

\* ThreePhaseVotes, a value of data.prepares / data.commits
Votes(msg, voters) == [msg |-> msg, voters |-> voters]

NoEntries == [k \in {} |-> None]
OneEntry(key, value) == [k \in {key} |-> value]

\* The data of a replica of instance `inst` in view `view` that last ordered
\* `lo`, holding for the single key `key`: a pre-prepare it sent itself (if
\* sent), a preprepared candidate (if candidate), and prepare / commit tallies
\* with the given voters (no tally when there are no voters).
ConsensusData(inst, view, lo, key, sent, candidate, prepare_voters, commit_voters) ==
  [name |-> SelfName,
   inst_id |-> inst,
   view_no |-> view,
   last_ordered_3pc |-> lo,
   sent_preprepares |->
     IF sent
     THEN OneEntry(key, Message("PrePrepare", inst, key[1], key[2], Some(BaseTriple)))
     ELSE NoEntries,
   preprepared |-> IF candidate THEN {BatchID(key)} ELSE {},
   prepares |->
     IF prepare_voters # {}
     THEN OneEntry(key, Votes(Message("Prepare", inst, key[1], key[2], Some(BaseTriple)),
                              prepare_voters))
     ELSE NoEntries,
   commits |->
     IF commit_voters # {}
     THEN OneEntry(key, Votes(Message("Commit", inst, key[1], key[2], None),
                              commit_voters))
     ELSE NoEntries]

(***************************************************************************)
(* Inputs                                                                  *)
(***************************************************************************)
\* stash_data passed to prepare_msg_to_request
StashChoices == {None, Some(BaseTriple), Some(<<"hB", "hA", "hA">>)}

\* MessageReq of a peer
Requests ==
  {[params |-> [instId |-> i, viewNo |-> v, ppSeqNo |-> s]] :
     i \in InstIds, v \in Views, s \in ReqSeqValues}

\* a raw dict that is no message of any class
Malformed == Message("dict", 0, 0, 0, None)

Next1(x, S) == IF x + 1 \in S THEN x + 1 ELSE CHOOSE y \in S : \A z \in S : y <= z

\* MessageRep of a peer for the envelope (inst, key): no message, a raw dict of
\* the wrong shape, a message of class cls that agrees with the envelope (with
\* any hashes), or one that disagrees with it in one of the three fields.
RepliesFor(cls, inst, key) ==
  LET agreeing == {Message(cls, inst, key[1], key[2], h) : h \in HashesOf(cls)}
      h0 == CHOOSE h \in HashesOf(cls) : h = None \/ h = Some(BaseTriple)
      disagreeing ==
        {Message(cls, Next1(inst, InstIds), key[1], key[2], h0),
         Message(cls, inst, Next1(key[1], Views), key[2], h0),
         Message(cls, inst, key[1], Next1(key[2], Seqs), h0)}
  IN  {[params |-> [instId |-> inst, viewNo |-> key[1], ppSeqNo |-> key[2]],
        msg |-> m] :
         m \in {None, Some(Malformed)} \cup {Some(x) : x \in agreeing \cup disagreeing}}

(***************************************************************************)
(* Actions: one per public method                                          *)
(***************************************************************************)
PrepareMsgToRequest(three_pc_key, stash_data) ==
  /\ three_pc_key \in DOMAIN requested_messages
       \/ Cardinality(DOMAIN requested_messages) < MaxPending
  /\ LET r == prepare_msg_to_request(data, requested_messages,
                                     three_pc_key, stash_data)
     IN  /\ requested_messages' = r.requested_messages
         /\ result' = r.result
  /\ asked' = asked \cup {three_pc_key}
  /\ call' = [op |-> "prepare_msg_to_request", key |-> three_pc_key,
              stash_data |-> stash_data,
              \* history: the call before was a gc that dropped this key
              regained |-> call.op = "gc" /\ three_pc_key \in call.cleared]
  /\ UNCHANGED <<kind, data>>

Gc ==
  /\ requested_messages' = gc(requested_messages)
  /\ asked' = {}
  \* history: the keys this gc dropped
  /\ call' = [op |-> "gc", cleared |-> DOMAIN requested_messages]
  /\ result' = Returned(None)
  /\ UNCHANGED <<kind, data>>

ProcessMessageReq(msg) ==
  /\ result' = process_message_req(kind, data, msg)
  /\ call' = [op |-> "process_message_req", msg |-> msg]
  /\ UNCHANGED <<kind, data, requested_messages, asked>>

\* get_3pc_message that takes the key of the reply off requested_messages
GetThreePcMessage_forgets_key(msg) ==
  /\ result' = get_3pc_message(kind, data, requested_messages, msg)
  /\ call' = [op |-> "get_3pc_message", msg |-> msg]
  /\ requested_messages' =
       [k \in DOMAIN requested_messages \ {<<msg.params.viewNo, msg.params.ppSeqNo>>}
          |-> requested_messages[k]]
  /\ UNCHANGED <<kind, data, asked>>

\* get_3pc_message that files the key of the reply under data.preprepared
GetThreePcMessage_files_key(msg) ==
  /\ result' = get_3pc_message(kind, data, requested_messages, msg)
  /\ call' = [op |-> "get_3pc_message", msg |-> msg]
  /\ data' = [data EXCEPT !.preprepared =
                 @ \cup {BatchID(<<msg.params.viewNo, msg.params.ppSeqNo>>)}]
  /\ UNCHANGED <<kind, requested_messages, asked>>

GetThreePcMessage(msg) ==
  /\ result' = get_3pc_message(kind, data, requested_messages, msg)
  /\ call' = [op |-> "get_3pc_message", msg |-> msg]
  /\ UNCHANGED <<kind, data, requested_messages, asked>>

(***************************************************************************)
(* Specification of one handler in the requester role (and answering       *)
(* requests from empty stores).                                            *)
(***************************************************************************)
\* (own instance, last ordered key, key of a preprepared candidate or None)
RequesterSituations ==
  {<<0, <<0, 0>>, None>>,
   <<1, <<0, 0>>, Some(<<0, 1>>)>>,
   <<0, <<0, MaxSeq>>, None>>,
   <<1, <<LastView, 1>>, None>>}

InitHandler ==
  /\ requested_messages = NoEntries
  /\ asked = {}
  /\ call = [op |-> "__init__"]
  /\ result = Returned(None)

\* no peer is modelled
InitAlone ==
  /\ peer_data = None
  /\ wire = None

InitRequester ==
  /\ kind \in Kinds
  /\ \E s \in RequesterSituations :
       data = ConsensusData(s[1], 0, s[2],
                            IF s[3] = None THEN <<0, 1>> ELSE TheValue(s[3]),
                            FALSE, s[3] # None, {}, {})
  /\ InitHandler
  /\ InitAlone

Init == InitRequester

Next ==
  \/ /\ \E k \in Keys, sd \in StashChoices : PrepareMsgToRequest(k, sd)
     /\ UNCHANGED network_vars
  \/ /\ Gc
     /\ UNCHANGED network_vars
  \/ /\ \E req \in Requests : ProcessMessageReq(req)
     /\ UNCHANGED network_vars
  \/ /\ \E k \in Keys : \E rep \in RepliesFor(kind, data.inst_id, k) :
          GetThreePcMessage(rep)
     /\ UNCHANGED network_vars

Spec == Init /\ [][Next]_vars

(***************************************************************************)
(* Specification of one handler in the responder role: the stores hold     *)
(* evidence for one key.                                                   *)
(***************************************************************************)
VoterSets == SUBSET Names

InitResponder ==
  /\ kind \in Kinds
  /\ \E inst \in InstIds, view \in Views, key \in Keys,
        sent \in BOOLEAN, candidate \in BOOLEAN,
        pv \in VoterSets, cv \in VoterSets :
       data = ConsensusData(inst, view, <<0, 0>>, key, sent, candidate, pv, cv)
  /\ InitHandler
  /\ InitAlone

NextResponder ==
  /\ \E req \in Requests : ProcessMessageReq(req)
  /\ UNCHANGED network_vars

SpecResponder == InitResponder /\ [][NextResponder]_vars

(***************************************************************************)
(* Specification of the reply validation on its own: the handler is asked  *)
(* for messages, collected, and _validate_message_rep is called with the   *)
(* message of a reply (the call get_3pc_message is written to make).       *)
(***************************************************************************)
\* the messages of class cls a peer of the own instance can have replied with
ValidationInputs(cls, inst) ==
  {None} \cup {Some(m) : m \in {x \in Messages(cls) : x.instId = inst}}

ValidateMessageRep(msg) ==
  /\ result' = _validate_message_rep(kind, data, requested_messages, msg)
  /\ call' = [op |-> "_validate_message_rep", msg |-> msg,
              \* history: the call before asked again for the key of msg, with
              \* the hashes of msg as stash_data, and was refused
              rebound |-> /\ msg # None
                          /\ call.op = "prepare_msg_to_request"
                          /\ call.key = <<TheValue(msg).viewNo, TheValue(msg).ppSeqNo>>
                          /\ call.stash_data = TheValue(msg).hashes
                          /\ result = Returned(None)]
  /\ UNCHANGED <<kind, data, requested_messages, asked>>

NextValidation ==
  \/ /\ \E k \in Keys, sd \in StashChoices : PrepareMsgToRequest(k, sd)
     /\ UNCHANGED network_vars
  \/ /\ Gc
     /\ UNCHANGED network_vars
  \/ /\ \E msg \in ValidationInputs(kind, data.inst_id) : ValidateMessageRep(msg)
     /\ UNCHANGED network_vars

SpecValidation == InitRequester /\ [][NextValidation]_vars

(***************************************************************************)
(* Specification of a recovery between two replicas: the handler of the    *)
(* requester (data, requested_messages) and the handler of the same kind   *)
(* of a peer (peer_data), with one message in flight between them.         *)
(***************************************************************************)
\* the MessageReq the requester sends for the payload of prepare_msg_to_request
MessageReqFor(payload) ==
  [type |-> "MessageReq",
   params |-> [instId |-> payload.instId, viewNo |-> payload.viewNo,
               ppSeqNo |-> PyInt(payload.ppSeqNo)],
   msg |-> None]

\* the MessageRep the peer sends back: the params of the request and the message
MessageRepFor(req, message) ==
  [type |-> "MessageRep",
   params |-> [instId |-> req.params.instId, viewNo |-> req.params.viewNo,
               ppSeqNo |-> req.params.ppSeqNo.val],
   msg |-> Some(message)]

\* what the handlers see of a message in flight
Body(m) == [params |-> m.params, msg |-> m.msg]
RequestBody(m) == [params |-> m.params]

\* the requester asks for a key; a payload it gets is sent to the peer
SendRequest(three_pc_key, stash_data) ==
  /\ wire = None
  /\ PrepareMsgToRequest(three_pc_key, stash_data)
  /\ wire' = IF result'.value = None THEN None
             ELSE Some(MessageReqFor(TheValue(result'.value)))
  /\ UNCHANGED peer_data

\* the peer serves the request in flight; only a message it returns is sent back
AnswerRequest ==
  /\ wire # None
  /\ TheValue(wire).type = "MessageReq"
  /\ LET req == TheValue(wire)
         r == process_message_req(kind, TheValue(peer_data), RequestBody(req))
     IN  wire' = IF r.status = "return" /\ r.value # None
                 THEN Some(MessageRepFor(req, TheValue(r.value)))
                 ELSE None
  /\ UNCHANGED <<handler_vars, peer_data>>

\* the requester handles the reply in flight
DeliverReply ==
  /\ wire # None
  /\ TheValue(wire).type = "MessageRep"
  /\ GetThreePcMessage(Body(TheValue(wire)))
  /\ wire' = None
  /\ UNCHANGED peer_data

\* The peer is a replica of the same instance in the same view; it holds for
\* one key the pre-prepare it sent, or its own votes, or the votes of another.
InitRecovery ==
  /\ kind \in Kinds
  /\ \E s \in RequesterSituations, view \in Views, key \in Keys, sent \in BOOLEAN :
       /\ data = ConsensusData(s[1], view, s[2],
                               IF s[3] = None THEN <<0, 1>> ELSE TheValue(s[3]),
                               FALSE, s[3] # None, {}, {})
       /\ peer_data = Some(ConsensusData(s[1], view, <<0, 0>>, key, sent, FALSE,
                                         IF sent THEN {SelfName} ELSE {OtherName},
                                         IF sent THEN {SelfName} ELSE {OtherName}))
  /\ InitHandler
  /\ wire = None

NextRecovery ==
  \/ \E k \in Keys, sd \in StashChoices : SendRequest(k, sd)
  \/ AnswerRequest
  \/ DeliverReply
  \/ /\ Gc
     /\ UNCHANGED network_vars

SpecRecovery == InitRecovery /\ [][NextRecovery]_vars

(***************************************************************************)
(* Vocabulary of the claims                                                *)
(***************************************************************************)
IsReplyCall == call.op = "get_3pc_message"
IsRequestCall == call.op = "process_message_req"
IsPrepareCall == call.op = "prepare_msg_to_request"

\* the reply carries a well-formed message, and message and envelope name key k
ReplyIsFor(rep, k) ==
  /\ <<rep.params.viewNo, rep.params.ppSeqNo>> = k
  /\ rep.msg # None
  /\ TheValue(rep.msg).cls \in Kinds
  /\ <<TheValue(rep.msg).viewNo, TheValue(rep.msg).ppSeqNo>> = k

\* k <= l in the total order of 3PC keys: by view, then by sequence number
KeyLE(k, l) == k[1] < l[1] \/ (k[1] = l[1] /\ k[2] <= l[2])

\* the tagged rejections of a reply
RejectedAs(r, reason) == r.value = None /\ r.reason = reason
UnsolicitedReason == "Had either not requested this msg or already received the msg"
StaleReason == "already ordered msg"
ContentMismatchReason == "3PC does not have expected state"
StructuralMismatchReason == "replied message does not satisfy query criteria"

\* the payload prepare_msg_to_request is to return for key k
PayloadFor(k) == [instId |-> data.inst_id, viewNo |-> k[1], ppSeqNo |-> k[2]]

(***************************************************************************)
(* C1: a reply for a key that was not passed to prepare_msg_to_request     *)
(* since the last gc never yields a protocol message and is rejected as    *)
(* unsolicited, whatever the message it carries.                           *)
(***************************************************************************)
C1_UnsolicitedReplyRejected ==
  \A k \in Keys :
    (IsReplyCall /\ ReplyIsFor(call.msg, k) /\ k \notin asked)
      => RejectedAs(result, UnsolicitedReason)

(***************************************************************************)
(* C2: a reply for a pending key k is rejected as stale, and yields no     *)
(* message, when k <= last_ordered_3pc (k = last_ordered_3pc included);    *)
(* when k > last_ordered_3pc it is not rejected as stale.                  *)
(***************************************************************************)
C2_StaleReplyRejected ==
  \A k \in Keys :
    (IsReplyCall /\ ReplyIsFor(call.msg, k) /\ k \in DOMAIN requested_messages)
      => IF KeyLE(k, data.last_ordered_3pc)
         THEN RejectedAs(result, StaleReason)
         ELSE result.reason # StaleReason

(***************************************************************************)
(* C3: for a pre-prepare or prepare handler and a pending, not yet ordered *)
(* key k requested with stash binding b: a reply for k whose three hashes  *)
(* differ from b is rejected as content mismatch and yields no message, a  *)
(* reply whose hashes equal b is not; with no binding recorded for k no    *)
(* reply for k is rejected as content mismatch.                            *)
(***************************************************************************)
C3_ContentBindingEnforced ==
  \A k \in Keys :
    (/\ IsReplyCall
     /\ kind \in {"PrePrepare", "Prepare"}
     /\ ReplyIsFor(call.msg, k)
     /\ k \in DOMAIN requested_messages
     /\ ~KeyLE(k, data.last_ordered_3pc))
      => IF /\ requested_messages[k] # None
            /\ TheValue(call.msg.msg).hashes # requested_messages[k]
         THEN RejectedAs(result, ContentMismatchReason)
         ELSE result.reason # ContentMismatchReason

(***************************************************************************)
(* C4: a message returned by get_3pc_message has the instId, viewNo and    *)
(* ppSeqNo of the reply's envelope; a reply that passes the validation of  *)
(* its key but whose message disagrees with the envelope in one of the     *)
(* three fields is rejected as a structural mismatch, with no message.     *)
(***************************************************************************)
DisagreesWithEnvelope(rep) ==
  LET m == TheValue(rep.msg)
  IN  \/ m.instId # rep.params.instId
      \/ m.viewNo # rep.params.viewNo
      \/ m.ppSeqNo # rep.params.ppSeqNo

\* the key passes every check of the validation: pending, not yet ordered,
\* bound to nothing, no preprepared candidate
KeyIsAcceptable(k) ==
  /\ k \in DOMAIN requested_messages
  /\ requested_messages[k] = None
  /\ ~KeyLE(k, data.last_ordered_3pc)
  /\ \A pp \in data.preprepared : <<pp.view_no, pp.pp_seq_no>> # k

C4_StructuralMismatchRejected ==
  IsReplyCall =>
    LET rep == call.msg
    IN  /\ result.value # None =>
             /\ TheValue(result.value).instId = rep.params.instId
             /\ TheValue(result.value).viewNo = rep.params.viewNo
             /\ TheValue(result.value).ppSeqNo = rep.params.ppSeqNo
        /\ (/\ rep.msg # None
            /\ TheValue(rep.msg).cls \in Kinds
            /\ DisagreesWithEnvelope(rep)
            /\ KeyIsAcceptable(<<rep.params.viewNo, rep.params.ppSeqNo>>)
            /\ KeyIsAcceptable(<<TheValue(rep.msg).viewNo, TheValue(rep.msg).ppSeqNo>>))
           => RejectedAs(result, StructuralMismatchReason)

(***************************************************************************)
(* C5: without a gc in between, prepare_msg_to_request returns a payload   *)
(* for a key at most once: the call for a key not asked for since the last *)
(* gc returns {instId: own instance, viewNo: k.view, ppSeqNo: k.seq}, and  *)
(* every later call for that key returns None, whatever stash_data is      *)
(* passed and whatever requests and replies were handled in between.       *)
(***************************************************************************)
C5_PayloadAtMostOnce ==
  [][IsPrepareCall' =>
       result' = IF call'.key \in asked
                 THEN Returned(None)
                 ELSE Returned(Some(PayloadFor(call'.key)))]_vars

\* a call for a pending key, with another stash_data than the recorded one,
\* returned None
C5_Witness ==
  /\ IsPrepareCall
  /\ result = Returned(None)
  /\ requested_messages[call.key] # call.stash_data

(***************************************************************************)
(* C6: gc leaves requested_messages empty whatever it held, so that the    *)
(* next prepare_msg_to_request for any key, a key requested before the gc  *)
(* included, returns a payload again and records the key as pending with   *)
(* the stash_data passed.                                                  *)
(***************************************************************************)
C6_GcResets ==
  [][/\ call'.op = "gc" => requested_messages' = NoEntries
     /\ (IsPrepareCall' /\ call'.key \notin asked) =>
          /\ result'.value = Some(PayloadFor(call'.key))
          /\ call'.key \in DOMAIN requested_messages'
          /\ requested_messages'[call'.key] = call'.stash_data]_vars

\* a key that the gc before dropped was requested again and is pending
C6_Witness ==
  /\ IsPrepareCall
  /\ call.regained
  /\ result.value = Some(PayloadFor(call.key))
  /\ call.key \in DOMAIN requested_messages

(***************************************************************************)
(* Vocabulary of the claims about inbound requests                         *)
(***************************************************************************)
\* the request names this replica's instance and view and a positive int
RequestIsValid(req) ==
  /\ req.params.instId = data.inst_id
  /\ req.params.viewNo = data.view_no
  /\ req.params.ppSeqNo \in {PyInt(n) : n \in Seqs}

RequestKey(req) == <<req.params.viewNo, req.params.ppSeqNo.val>>

CannotServe ==
  Raised("IncorrectMessageForHandlingException", "cannot serve request")

\* the store the handler of this kind answers from
TallyOf(cls) == IF cls = "Prepare" THEN data.prepares ELSE data.commits

\* this replica holds a message of the handler's kind that it would serve
\* for key k if asked in the right instance and view
Servable(k) ==
  CASE kind = "PrePrepare" -> k \in DOMAIN data.sent_preprepares
    [] OTHER -> k \in DOMAIN TallyOf(kind) /\ SelfName \in TallyOf(kind)[k].voters

(***************************************************************************)
(* C7: process_message_req gives no reply when the request's instance id   *)
(* is not this replica's, or its view is not the current view, or its      *)
(* pp_seq_no is not a positive int: it ends with 'cannot serve request'    *)
(* before the lookup, also when a message for that (view, seq) is held.    *)
(***************************************************************************)
C7_InvalidRequestDropped ==
  (IsRequestCall /\ ~RequestIsValid(call.msg)) => result = CannotServe

\* a request for another view than the current one, for a key this replica
\* holds a servable message for
C7_Witness ==
  /\ IsRequestCall
  /\ call.msg.params.instId = data.inst_id
  /\ call.msg.params.viewNo # data.view_no
  /\ call.msg.params.ppSeqNo.type = "int"
  /\ Servable(RequestKey(call.msg))
  /\ result.value = None

(***************************************************************************)
(* C8: the prepare handler and the commit handler answer a valid request   *)
(* for key k with the stored prepare (commit) of k if and only if the      *)
(* tally of k holds this replica's own vote; with votes of other replicas  *)
(* only, nothing is returned although a message for k is stored.           *)
(***************************************************************************)
C8_SelfVoteGating ==
  (IsRequestCall /\ kind \in {"Prepare", "Commit"} /\ RequestIsValid(call.msg)) =>
    LET k == RequestKey(call.msg)
        tally == TallyOf(kind)
    IN  result = IF k \in DOMAIN tally /\ SelfName \in tally[k].voters
                 THEN Returned(Some(tally[k].msg))
                 ELSE Returned(None)

\* a prepare stored for k with the vote of another replica only: no answer
C8_Witness ==
  /\ IsRequestCall
  /\ kind = "Prepare"
  /\ RequestIsValid(call.msg)
  /\ RequestKey(call.msg) \in DOMAIN data.prepares
  /\ data.prepares[RequestKey(call.msg)].voters = {OtherName}
  /\ result = Returned(None)

(***************************************************************************)
(* C9: the pre-prepare handler answers a valid request for key k with the  *)
(* pre-prepare stored under k in sent_preprepares and with nothing else:   *)
(* when k is not in sent_preprepares it returns None, also when a          *)
(* preprepared candidate for k is held.                                    *)
(***************************************************************************)
C9_OnlySentPreprepares ==
  (IsRequestCall /\ kind = "PrePrepare" /\ RequestIsValid(call.msg)) =>
    LET k == RequestKey(call.msg)
    IN  result = IF k \in DOMAIN data.sent_preprepares
                 THEN Returned(Some(data.sent_preprepares[k]))
                 ELSE Returned(None)

\* a candidate for k but no sent pre-prepare: no answer
C9_Witness ==
  /\ IsRequestCall
  /\ kind = "PrePrepare"
  /\ RequestIsValid(call.msg)
  /\ RequestKey(call.msg) \notin DOMAIN data.sent_preprepares
  /\ \E pp \in data.preprepared :
       <<pp.view_no, pp.pp_seq_no>> = RequestKey(call.msg)
  /\ result = Returned(None)

(***************************************************************************)
(* C10: for every kind, a valid request for a key this replica holds no    *)
(* evidence for returns None; it never ends in an exception.               *)
(***************************************************************************)
NoEvidence(k) ==
  CASE kind = "PrePrepare" -> k \notin DOMAIN data.sent_preprepares
    [] OTHER -> k \notin DOMAIN TallyOf(kind)

C10_SilenceOnUnknown ==
  (IsRequestCall /\ RequestIsValid(call.msg) /\ NoEvidence(RequestKey(call.msg)))
    => result = Returned(None)

\* a valid request for a key the store of this kind holds nothing for
\* was answered with None
C10_Witness ==
  /\ IsRequestCall
  /\ RequestIsValid(call.msg)
  /\ NoEvidence(RequestKey(call.msg))
  /\ result.status = "return"

(***************************************************************************)
(* Vocabulary of the claims about the order and the effects of the checks  *)
(***************************************************************************)
RedundantReason == "already received msg"
EmptyReason == "received null"

\* a preprepared candidate of the replica has key k
HasCandidate(k) == \E pp \in data.preprepared : <<pp.view_no, pp.pp_seq_no>> = k

\* message m for key k passes the checks of the base class: k is pending,
\* not yet ordered, and bound to nothing or to the hashes of m
PassesBaseChecks(k, m) ==
  /\ k \in DOMAIN requested_messages
  /\ ~KeyLE(k, data.last_ordered_3pc)
  /\ requested_messages[k] = None \/ requested_messages[k] = m.hashes

(***************************************************************************)
(* C11: for the pre-prepare handler, a reply for key k that passes all     *)
(* base checks is rejected as redundant ('already received msg'), with no  *)
(* message, whenever data.preprepared holds an entry with the view and     *)
(* sequence number of k; without such an entry it is not rejected for      *)
(* this reason.                                                            *)
(***************************************************************************)
C11_RedundantPreprepareRejected ==
  \A k \in Keys :
    (/\ IsReplyCall
     /\ kind = "PrePrepare"
     /\ ReplyIsFor(call.msg, k)
     /\ PassesBaseChecks(k, TheValue(call.msg.msg)))
      => IF HasCandidate(k)
         THEN RejectedAs(result, RedundantReason)
         ELSE result.reason # RedundantReason

(***************************************************************************)
(* C12: for every kind of handler, a reply that carries no message is      *)
(* rejected as empty ('received null'): the handling ends in this tagged   *)
(* rejection, never in another fault, and returns no message.              *)
(***************************************************************************)
C12_EmptyReplyRejected ==
  (IsReplyCall /\ call.msg.msg = None) => RejectedAs(result, EmptyReason)

(***************************************************************************)
(* C13: get_3pc_message and process_message_req leave requested_messages   *)
(* (its keys and what each is bound to) as it was, whatever their outcome; *)
(* the table changes only when prepare_msg_to_request adds a key that was  *)
(* not pending, and when gc clears it.                                     *)
(***************************************************************************)
C13_TableFrame ==
  [][/\ (IsReplyCall' \/ IsRequestCall') =>
          requested_messages' = requested_messages
     /\ requested_messages' # requested_messages =>
          \/ call'.op = "gc" /\ requested_messages' = NoEntries
          \/ /\ IsPrepareCall'
             /\ call'.key \notin DOMAIN requested_messages
             /\ DOMAIN requested_messages' =
                  DOMAIN requested_messages \cup {call'.key}
             /\ \A k \in DOMAIN requested_messages :
                  requested_messages'[k] = requested_messages[k]]_vars

\* a reply for a pending key was rejected, and the key is still pending with
\* the stash_data it was requested with
C13_Witness ==
  \E k \in Keys :
    /\ IsReplyCall
    /\ ReplyIsFor(call.msg, k)
    /\ result.status = "raise"
    /\ k \in DOMAIN requested_messages
    /\ requested_messages[k] # None

(***************************************************************************)
(* C14: requester A and peer B are replicas of the same instance in the    *)
(* same view v. A asked for the pre-prepare of (v, s) with no stash_data,  *)
(* (v, s) is after A's last ordered key, A has no preprepared candidate    *)
(* for it, and B holds sent_preprepares[(v, s)]. Then B's                  *)
(* process_message_req on A's payload returns that pre-prepare, and A's    *)
(* get_3pc_message on the reply built from it returns a pre-prepare whose  *)
(* instId, viewNo and ppSeqNo are A's instance, v and s.                   *)
(***************************************************************************)
\* the reply A has just handled is B's answer for key k: the pre-prepare B sent
IsAnswerOfPeer(k) ==
  /\ peer_data # None
  /\ k \in DOMAIN TheValue(peer_data).sent_preprepares
  /\ IsReplyCall
  /\ <<call.msg.params.viewNo, call.msg.params.ppSeqNo>> = k
  /\ call.msg.msg = Some(TheValue(peer_data).sent_preprepares[k])

C14_RecoveryRoundTrip ==
  \A k \in Keys :
    (/\ kind = "PrePrepare"
     /\ IsAnswerOfPeer(k)
     /\ k[1] = data.view_no
     /\ KeyIsAcceptable(k))
      => /\ result.status = "return"
         /\ result.value = Some(Message("PrePrepare", data.inst_id, k[1], k[2],
                                        Some(BaseTriple)))

\* the reply rep satisfies every check for key k: its message is of the
\* handler's class, agrees with the envelope, passes the base checks, and
\* (pre-prepare handler) no preprepared candidate has the key
SatisfiesEveryCheck(rep, k) ==
  /\ ReplyIsFor(rep, k)
  /\ TheValue(rep.msg).cls = kind
  /\ ~DisagreesWithEnvelope(rep)
  /\ PassesBaseChecks(k, TheValue(rep.msg))
  /\ kind = "PrePrepare" => ~HasCandidate(k)

(***************************************************************************)
(* C15: a rejected reply does not block recovery: when a reply for key k   *)
(* was rejected, a reply for k handled next that satisfies every check is  *)
(* accepted - get_3pc_message returns its message - with no gc in between  *)
(* and data unchanged.                                                     *)
(***************************************************************************)
C15_RejectionDoesNotBlock ==
  [][\A k \in Keys :
       (/\ IsReplyCall
        /\ <<call.msg.params.viewNo, call.msg.params.ppSeqNo>> = k
        /\ result.value = None
        /\ IsReplyCall'
        /\ data' = data
        /\ SatisfiesEveryCheck(call.msg, k)')
         => result' = Returned(call'.msg.msg)]_vars

(***************************************************************************)
(* C16: the validation of a reply reports the first failing step in the    *)
(* order empty -> unsolicited -> stale -> content mismatch -> check of the *)
(* handler's kind: a reply that fails several checks is rejected for the   *)
(* earliest of them (a key never requested, with hashes that differ, is    *)
(* unsolicited; a pending, already ordered key with hashes that differ is  *)
(* stale), and the extra check of the pre-prepare handler only turns an    *)
(* acceptance of the base checks into a rejection.                         *)
(***************************************************************************)
\* the reason of the first step the reply fails, "" when it fails none
FirstFailingStep(rep) ==
  IF rep.msg = None THEN EmptyReason
  ELSE
    LET m == TheValue(rep.msg)
        k == <<m.viewNo, m.ppSeqNo>>
    IN  IF k \notin DOMAIN requested_messages THEN UnsolicitedReason
        ELSE IF KeyLE(k, data.last_ordered_3pc) THEN StaleReason
        ELSE IF /\ kind \in {"PrePrepare", "Prepare"}
                /\ requested_messages[k] # None
                /\ m.hashes # requested_messages[k]
        THEN ContentMismatchReason
        ELSE IF kind = "PrePrepare" /\ HasCandidate(k) THEN RedundantReason
        ELSE ""

C16_FirstFailingStepReported ==
  (/\ IsReplyCall
   /\ call.msg.msg # None => TheValue(call.msg.msg).cls \in Kinds
   /\ FirstFailingStep(call.msg) # "")
    => RejectedAs(result, FirstFailingStep(call.msg))

(***************************************************************************)
(* Vocabulary of the claims about _validate_message_rep called on its own  *)
(***************************************************************************)
IsValidateCall == call.op = "_validate_message_rep"

\* the validated message is a message for key k
ValidatedIsFor(k) ==
  /\ call.msg # None
  /\ <<TheValue(call.msg).viewNo, TheValue(call.msg).ppSeqNo>> = k

(***************************************************************************)
(* C17: for the commit handler the content step of the validation is a     *)
(* no-op: a commit for a pending, not yet ordered key is never rejected as *)
(* a content mismatch, whatever stash_data the key was requested with.     *)
(***************************************************************************)
C17_CommitContentStepIsNoOp ==
  \A k \in Keys :
    (/\ IsValidateCall
     /\ kind = "Commit"
     /\ ValidatedIsFor(k)
     /\ k \in DOMAIN requested_messages
     /\ ~KeyLE(k, data.last_ordered_3pc))
      => result.reason # ContentMismatchReason

C20_ConsensusDataFrame ==
  [][data' = data /\ peer_data' = peer_data /\ kind' = kind]_vars

\* the requester, which holds a preprepared candidate, has handled the reply
\* of a peer that returned a pre-prepare it had sent
C20_Witness ==
  /\ IsReplyCall
  /\ data.preprepared # {}
  /\ peer_data # None
  /\ call.msg.msg \in {Some(TheValue(peer_data).sent_preprepares[k]) :
                         k \in DOMAIN TheValue(peer_data).sent_preprepares}

====
